---- MODULE Spec2Model ----
(***************************************************************************)
(* Appointment subsystem of pawsitive_care: the vet-side service          *)
(* (AppointmentComponentFactory / AppointmentService, director, builder,  *)
(* action strategies, repository, observers).                             *)
(*                                                                         *)
(* The relational store is modelled as the table of Appointment rows with  *)
(* exactly the columns models.py declares; attributes assigned to an       *)
(* Appointment object that are not columns live on the in-memory object    *)
(* only.  Column values are kept as assigned (the repository's tests read  *)
(* service_type back as the string the director passed).                   *)
(***************************************************************************)
EXTENDS Integers, Sequences, FiniteSets, TLC

\* ---------------------------------------------------------------- bounds
MaxAppts == 1

\* ------------------------------------------------------------ input sets
\* date-times are minutes since midnight of day 0 (600 is 10:00 on day 0)
ObserverIds == {"mock", "vet_schedule", "emergency_alert"}

\* Python None, per value type (TLC does not compare integers with strings)
None == "None"
NoDate == -1
\* attribute never assigned on the object (reading it raises AttributeError)
Unset == "<unset>"
UnsetDate == -2

OwnerEmail(pet) == "owner:" \o pet
VetEmail(vet) == "vet:" \o vet

\* accounts.models.Veterinarian: the profile row of a user.  It has
\* get_full_name() and get_email(), and no attribute `email`.
Veterinarian(user) == "Veterinarian:" \o user
IsVeterinarian(v) == Len(v) > 13 /\ SubSeq(v, 1, 13) = "Veterinarian:"
get_full_name(v) == IF IsVeterinarian(v) THEN SubSeq(v, 14, Len(v)) ELSE v

VARIABLES
    appointments,      \* Appointment.objects: row i has primary key i
    observers,         \* AppointmentComponentFactory._observers
    director_builder,  \* AppointmentDirector._builder._appointment
    builder,           \* a caller-owned AppointmentBuilder()._appointment
    passed,            \* history: arguments given to builder's setters since its last reset
    updates,           \* observer.update calls made by the last operation
    mail,              \* send_mail calls completed by the last operation
    last,              \* the last operation: its arguments and outcome
    notifications,     \* AppointmentNotification.objects
    requests,          \* the requests being served concurrently, each at its step
    factory            \* AppointmentComponentFactory._instance and the objects it holds

vars == <<appointments, observers, director_builder, builder, passed, updates, mail, last,
          notifications, requests, factory>>

\* ------------------------------------------------------------ the builder
\* AppointmentBuilder.reset
BuilderReset ==
    [pet |-> None, service_type |-> None, veterinarian |-> None,
     date_time |-> NoDate, clinic_branch |-> None, notes |-> "",
     status |-> "pending"]

set_pet(b, pet) == [b EXCEPT !.pet = pet]
set_service(b, service_type) == [b EXCEPT !.service_type = service_type]
set_veterinarian(b, vet) == [b EXCEPT !.veterinarian = vet]
set_datetime(b, date_time) == [b EXCEPT !.date_time = date_time]
set_clinic_branch(b, branch) == [b EXCEPT !.clinic_branch = branch]
set_notes(b, notes) == [b EXCEPT !.notes = notes]
set_status(b, status) == [b EXCEPT !.status = status]

\* Appointment(**fields): an unsaved object (id 0 stands for pk None)
NewObject(f) ==
    [id |-> 0, pet |-> f.pet, service_type |-> f.service_type,
     veterinarian |-> f.veterinarian, date_time |-> f.date_time,
     clinic_branch |-> f.clinic_branch, notes |-> f.notes, status |-> f.status,
     treatment_notes |-> Unset, diagnosis |-> Unset,
     follow_up_date |-> UnsetDate, cancellation_reason |-> Unset]

\* mutant of build_after: build() does not call reset()
build_after_no_reset(b) == b

\* AppointmentBuilder.build: the object built, and the builder after it
build_object(b) == NewObject(b)
build_after(b) == BuilderReset

\* ------------------------------------------------------------- the store
\* the columns of Appointment (models.py)
Row(obj) ==
    [pet |-> obj.pet, service_type |-> obj.service_type,
     veterinarian |-> obj.veterinarian, date_time |-> obj.date_time,
     clinic_branch |-> obj.clinic_branch, notes |-> obj.notes,
     status |-> obj.status]

\* Appointment.objects.get(id=...): a fresh object carrying the columns only
Load(store, id) == [NewObject(store[id]) EXCEPT !.id = id]

\* mutant of SaveStore: an insert reuses the key of the newest row
SaveStore_reuses_last_key(store, obj) ==
    IF obj.id = 0
    THEN IF store = <<>> THEN <<Row(obj)>>
         ELSE [store EXCEPT ![Len(store)] = Row(obj)]
    ELSE [store EXCEPT ![obj.id] = Row(obj)]
\* Model.save(): insert when the object has no primary key, else update.
\* Each save also fires the post_save receiver appointment_changed, which
\* runs AppointmentSubject.notify of vet_patterns/observer.py; nothing
\* attaches an observer to that subject, so the receiver has no effect.
SaveStore(store, obj) ==
    IF obj.id = 0 THEN Append(store, Row(obj))
    ELSE [store EXCEPT ![obj.id] = Row(obj)]
SaveObject(store, obj) ==
    IF obj.id = 0 THEN [obj EXCEPT !.id = Len(store) + 1] ELSE obj

\* mutant of get_by_id: an unknown id yields the newest appointment
get_by_id_or_newest(store, id) ==
    IF id \in 1..Len(store) THEN <<Load(store, id)>>
    ELSE IF store = <<>> THEN <<>> ELSE <<Load(store, Len(store))>>
\* DjangoAppointmentRepository.get_by_id: <<>> stands for None
get_by_id(store, id) == IF id \in 1..Len(store) THEN <<Load(store, id)>> ELSE <<>>

\* ----------------------------------------------------------- the director
\* datetime.date(): date-times are minutes, a date is a day number
DateOf(date_time) == date_time \div (24 * 60)

Built(c) == [raised |-> "none", obj |-> <<build_object(c)>>, builder |-> build_after(c)]

\* mutant of create_regular_checkup: the set_clinic_branch call is missing
create_regular_checkup_no_branch(b, pet, vet, clinic_branch, date_time) ==
    Built(set_status(set_notes(set_datetime(set_veterinarian(
          set_service(set_pet(b, pet), "regular_checkup"), vet), date_time),
          "Regular health checkup"), "pending"))

\* AppointmentDirector.create_regular_checkup
create_regular_checkup(b, pet, vet, clinic_branch, date_time) ==
    Built(set_status(set_notes(set_clinic_branch(set_datetime(set_veterinarian(
          set_service(set_pet(b, pet), "regular_checkup"), vet), date_time),
          clinic_branch), "Regular health checkup"), "pending"))

\* AppointmentDirector.create_emergency_appointment: its first statement is
\* `from ...models import Veterinarian`; appoinments/models.py defines no
\* Veterinarian (accounts/models.py does), so the call raises ImportError
\* before the builder is touched.
create_emergency_appointment(b, pet, clinic_branch, description) ==
    [raised |-> "ImportError", obj |-> <<>>, builder |-> b]

\* AppointmentDirector.create_follow_up
create_follow_up(b, original_appointment, follow_up_date) ==
    Built(set_status(set_notes(set_clinic_branch(set_datetime(set_veterinarian(
          set_service(set_pet(b, original_appointment.pet), "follow_up"),
          original_appointment.veterinarian), follow_up_date),
          original_appointment.clinic_branch),
          "Follow-up for appointment from " \o ToString(DateOf(original_appointment.date_time))),
          "pending"))

\* AppointmentDirector.create_vaccination
create_vaccination(b, pet, vet, clinic_branch, vaccine_type, date_time) ==
    Built(set_status(set_notes(set_clinic_branch(set_datetime(set_veterinarian(
          set_service(set_pet(b, pet), "vaccination"), vet), date_time),
          clinic_branch), "Vaccination: " \o vaccine_type), "pending"))

\* AppointmentDirector.create_surgery
create_surgery(b, pet, vet, clinic_branch, surgery_type, date_time, pre_op_notes) ==
    Built(set_status(set_notes(set_clinic_branch(set_datetime(set_veterinarian(
          set_service(set_pet(b, pet), "surgery"), vet), date_time),
          clinic_branch),
          "Surgery Type: " \o surgery_type \o "\nPre-op Notes: " \o pre_op_notes),
          "scheduled"))

\* --------------------------------------------------------- the repository
\* working hours and slot length of DjangoAppointmentRepository.get_available_slots
start_hour == 8
end_hour == 18
slot_duration == 30

\* the two kinds of value callers pass as `date`: a datetime.datetime (the
\* annotated type) holds minutes, a datetime.date (what vet_views and the
\* tests pass) holds a day number
DateTimeArg(minutes) == [type |-> "datetime", value |-> minutes]
DateArg(day) == [type |-> "date", value |-> day]

\* datetime.replace(hour=h, minute=0, second=0, microsecond=0)
ReplaceHour(date_time, h) == DateOf(date_time) * 24 * 60 + h * 60

\* Appointment.objects.filter(veterinarian_id=vet_id,
\*                            date_time__range=(start, end)): the matching ids
FilterVetRange(store, vet_id, start, end) ==
    {i \in 1..Len(store) :
        /\ store[i].veterinarian = vet_id
        /\ start <= store[i].date_time
        /\ store[i].date_time <= end}

\* QuerySet.order_by('date_time') (sign 1) or order_by('-date_time') (sign
\* -1) over the rows ids, as lists of objects: the database may list rows
\* with equal date_time in either order
OrderByDateTime(store, ids, sign) ==
    LET n == Cardinality(ids)
        listings == {s \in [1..n -> ids] :
                        /\ \A i, j \in 1..n : i # j => s[i] # s[j]
                        /\ \A i, j \in 1..n :
                              i < j => sign * store[s[i]].date_time
                                          <= sign * store[s[j]].date_time}
    IN  {[i \in 1..n |-> Load(store, s[i])] : s \in listings}

\* DjangoAppointmentRepository.get_all_by_vet
get_all_by_vet(store, vet_id, start_date, end_date) ==
    OrderByDateTime(store, FilterVetRange(store, vet_id, start_date, end_date), 1)

\* DjangoAppointmentRepository.get_all_by_pet
get_all_by_pet(store, pet_id) ==
    OrderByDateTime(store, {i \in 1..Len(store) : store[i].pet = pet_id}, -1)

\* the while loop of DjangoAppointmentRepository.get_available_slots
RECURSIVE SlotScan(_, _, _)
SlotScan(current_slot, day_end, existing_appointments) ==
    IF current_slot < day_end
    THEN (IF current_slot \notin existing_appointments
          THEN <<current_slot>> ELSE <<>>)
         \o SlotScan(current_slot + slot_duration, day_end, existing_appointments)
    ELSE <<>>

\* DjangoAppointmentRepository.get_available_slots (and the service method
\* that forwards to it).  date.replace(hour=...) exists on datetime only:
\* on a datetime.date it raises TypeError.
get_available_slots(store, vet_id, date) ==
    IF date.type = "date"
    THEN [raised |-> "TypeError", ret |-> <<>>]
    ELSE LET day_start == ReplaceHour(date.value, start_hour)
             day_end == ReplaceHour(date.value, end_hour)
             existing_appointments ==
                 {store[i].date_time : i \in FilterVetRange(store, vet_id, day_start, day_end)}
         IN  [raised |-> "none",
              ret |-> SlotScan(day_start, day_end, existing_appointments)]

\* mutant of get_conflicts: the end of the range is exclusive
get_conflicts_half_open(store, vet_id, start_time, end_time) ==
    OrderByDateTime(store,
        {i \in FilterVetRange(store, vet_id, start_time, end_time) :
            store[i].date_time < end_time}, 1)
\* DjangoAppointmentRepository.get_conflicts (and AppointmentService.check_conflicts)
get_conflicts(store, vet_id, start_time, end_time) ==
    OrderByDateTime(store, FilterVetRange(store, vet_id, start_time, end_time), 1)

\* mutant of update_status: the status is written to every row
update_status_all(store, appointment_id, new_status) ==
    [i \in 1..Len(store) |-> [store[i] EXCEPT !.status = new_status]]

\* DjangoAppointmentRepository.update_status: save(update_fields=['status'])
update_status(store, appointment_id, new_status) ==
    IF appointment_id \in 1..Len(store)
    THEN [store EXCEPT ![appointment_id].status = new_status]
    ELSE store
\* the while loop of AppointmentRepository.get_available_slots; the inner
\* for loop with its break finds whether some confirmed appointment overlaps
RECURSIVE ClientSlotScan(_, _, _, _)
ClientSlotScan(current_slot, end_time, duration, existing_appointments) ==
    IF current_slot + duration <= end_time
    THEN (IF \E a \in existing_appointments :
                 current_slot < a + duration /\ current_slot + duration > a
          THEN <<>> ELSE <<current_slot>>)
         \o ClientSlotScan(current_slot + duration, end_time, duration,
                           existing_appointments)
    ELSE <<>>

\* mutant of AppointmentRepository_get_available_slots: appointments of
\* every status are taken into account
AppointmentRepository_get_available_slots_any_status(store, vet, date, duration) ==
    ClientSlotScan(date * 24 * 60 + 9 * 60, date * 24 * 60 + 17 * 60, duration,
                   {store[i].date_time : i \in
                       {j \in 1..Len(store) :
                           /\ store[j].veterinarian = vet
                           /\ DateOf(store[j].date_time) = date}})

\* AppointmentRepository.get_available_slots (patterns/repository.py), the
\* client-side slot listing; date is a day number
AppointmentRepository_get_available_slots(store, vet, date, duration) ==
    LET existing_appointments ==
            {store[i].date_time : i \in
                {j \in 1..Len(store) :
                    /\ store[j].veterinarian = vet
                    /\ DateOf(store[j].date_time) = date
                    /\ store[j].status = "confirmed"}}
        start_time == date * 24 * 60 + 9 * 60
        end_time == date * 24 * 60 + 17 * 60
    IN  ClientSlotScan(start_time, end_time, duration, existing_appointments)
\* Appointment.STATUS_CHOICES: the values the status column declares
STATUS_CHOICES == {"pending", "confirmed", "cancelled", "completed", "no_show"}
\* ---------------------------------------------------------- the observers
\* Python `sub in s` on two strings
Contains(s, sub) ==
    \E i \in 1..(Len(s) - Len(sub) + 1) : SubSeq(s, i, i + Len(sub) - 1) = sub

\* django.core.mail.send_mail: delivers, or raises when the backend fails
send_mail(kind, to, mailOk) ==
    IF mailOk THEN [raised |-> "none", mails |-> <<[kind |-> kind, to |-> to]>>]
    ELSE [raised |-> "SMTPException", mails |-> <<>>]

\* VetScheduleObserver.update (changed_fields receives the event name)
VetScheduleObserver_update(appointment, changed_fields, mailOk) ==
    IF changed_fields # ""
       /\ (Contains(changed_fields, "date_time") \/ Contains(changed_fields, "status"))
    THEN send_mail("vet_update", VetEmail(appointment.veterinarian), mailOk)
    ELSE [raised |-> "none", mails |-> <<>>]

\* EmergencyAlertObserver.update reads appointment.is_emergency, which is
\* neither a column nor assigned anywhere: AttributeError
EmergencyAlertObserver_update(appointment, changed_fields, mailOk) ==
    [raised |-> "AttributeError", mails |-> <<>>]

\* observer.update, dispatched on the observer's class; "mock" is the tests'
\* Mock(spec=AppointmentObserver), which only records the call
update(observer, appointment, event, mailOk) ==
    CASE observer = "vet_schedule" -> VetScheduleObserver_update(appointment, event, mailOk)
      [] observer = "emergency_alert" -> EmergencyAlertObserver_update(appointment, event, mailOk)
      [] OTHER -> [raised |-> "none", mails |-> <<>>]

\* mutant of notify_observers: the loop stops after the first observer
notify_observers_first_only(obs, appointment, event_type, mailOk) ==
    IF obs = <<>> THEN [raised |-> "none", calls |-> <<>>, mails |-> <<>>]
    ELSE LET r == update(Head(obs), appointment, event_type, mailOk)
         IN  [raised |-> r.raised,
              calls |-> <<[observer |-> Head(obs), appointment |-> appointment,
                           event |-> event_type]>>,
              mails |-> r.mails]

\* AppointmentComponentFactory.notify_observers: in list order, stopping at
\* the first observer that raises
RECURSIVE notify_observers(_, _, _, _)
notify_observers(obs, appointment, event_type, mailOk) ==
    IF obs = <<>> THEN [raised |-> "none", calls |-> <<>>, mails |-> <<>>]
    ELSE LET call == [observer |-> Head(obs), appointment |-> appointment,
                      event |-> event_type]
             r == update(Head(obs), appointment, event_type, mailOk)
         IN  IF r.raised # "none"
             THEN [raised |-> r.raised, calls |-> <<call>>, mails |-> r.mails]
             ELSE LET rest == notify_observers(Tail(obs), appointment, event_type, mailOk)
                  IN  [raised |-> rest.raised, calls |-> <<call>> \o rest.calls,
                       mails |-> r.mails \o rest.mails]

\* AppointmentComponentFactory.register_observer
register_observer(obs, observer) ==
    IF \E i \in 1..Len(obs) : obs[i] = observer THEN obs ELSE Append(obs, observer)

\* AppointmentComponentFactory.unregister_observer: list.remove takes out
\* the first occurrence
unregister_observer(obs, observer) ==
    IF \E i \in 1..Len(obs) : obs[i] = observer
    THEN LET k == CHOOSE i \in 1..Len(obs) :
                      /\ obs[i] = observer
                      /\ \A j \in 1..(i - 1) : obs[j] # observer
         IN  SubSeq(obs, 1, k - 1) \o SubSeq(obs, k + 1, Len(obs))
    ELSE obs

\* --------------------------------------------------------- the strategies
\* Model.save(update_fields=['date_time'])
SaveDateTime(store, obj) == [store EXCEPT ![obj.id].date_time = obj.date_time]

\* every strategy yields: the exception raised (or "none"), the object as
\* mutated, the store as written and the mails delivered
Outcome(raised, obj, store, mails) ==
    [raised |-> raised, obj |-> obj, store |-> store, mails |-> mails]

\* CompleteAppointmentStrategy._schedule_follow_up: the chain calls
\* builder.set_service_type, which AppointmentBuilder does not define (it
\* defines set_service): AttributeError before build() and before save()
schedule_follow_up(store, original_appointment, follow_up_date) ==
    LET b == set_veterinarian(set_pet(BuilderReset, original_appointment.pet),
                              original_appointment.veterinarian)
    IN  [raised |-> "AttributeError", store |-> store]

\* CompleteAppointmentStrategy.execute
Complete_execute(store, appointment, kw, mailOk) ==
    LET obj == [appointment EXCEPT !.status = "completed",
                                   !.treatment_notes = kw.treatment_notes,
                                   !.diagnosis = kw.diagnosis,
                                   !.follow_up_date = kw.follow_up_date]
        saved == SaveStore(store, obj)
    IN  IF kw.follow_up_date # NoDate
        THEN LET f == schedule_follow_up(saved, obj, kw.follow_up_date)
             IN  Outcome(f.raised, obj, f.store, <<>>)
        ELSE Outcome("none", obj, saved, <<>>)

\* mutant of Reschedule_execute: a rescheduled appointment goes back to
\* 'pending'
Reschedule_execute_resets_status(store, appointment, kw, mailOk) ==
    IF kw.new_datetime = NoDate
    THEN Outcome("ValueError", appointment, store, <<>>)
    ELSE LET obj == [appointment EXCEPT !.date_time = kw.new_datetime,
                                       !.status = "pending"]
             saved == SaveDateTime(store, obj)
             m == send_mail("rescheduled", OwnerEmail(obj.pet), mailOk)
         IN  Outcome(m.raised, obj, saved, m.mails)

\* mutant of Reschedule_execute: a finished appointment cannot be moved
Reschedule_execute_guarded(store, appointment, kw, mailOk) ==
    IF kw.new_datetime = NoDate \/ appointment.status \in {"completed", "cancelled"}
    THEN Outcome("ValueError", appointment, store, <<>>)
    ELSE LET obj == [appointment EXCEPT !.date_time = kw.new_datetime]
             saved == SaveDateTime(store, obj)
             m == send_mail("rescheduled", OwnerEmail(obj.pet), mailOk)
         IN  Outcome(m.raised, obj, saved, m.mails)

\* mutant of Reschedule_execute: without a new_datetime the appointment is
\* kept where it is and the owner is mailed all the same
Reschedule_execute_keeps_datetime(store, appointment, kw, mailOk) ==
    LET obj == IF kw.new_datetime = NoDate THEN appointment
               ELSE [appointment EXCEPT !.date_time = kw.new_datetime]
        saved == SaveDateTime(store, obj)
        m == send_mail("rescheduled", OwnerEmail(obj.pet), mailOk)
    IN  Outcome(m.raised, obj, saved, m.mails)
\* RescheduleStrategy.execute
Reschedule_execute(store, appointment, kw, mailOk) ==
    IF kw.new_datetime = NoDate
    THEN Outcome("ValueError", appointment, store, <<>>)
    ELSE LET obj == [appointment EXCEPT !.date_time = kw.new_datetime]
             saved == SaveDateTime(store, obj)
             m == send_mail("rescheduled", OwnerEmail(obj.pet), mailOk)
         IN  Outcome(m.raised, obj, saved, m.mails)

\* mutant of Cancellation_execute: notify_client is ignored
Cancellation_execute_always_mails(store, appointment, kw, mailOk) ==
    LET obj == [appointment EXCEPT !.status = "cancelled",
                                   !.cancellation_reason = kw.reason]
        saved == SaveStore(store, obj)
        m == send_mail("cancelled", OwnerEmail(obj.pet), mailOk)
    IN  Outcome(m.raised, obj, saved, m.mails)

\* CancellationStrategy.execute
Cancellation_execute(store, appointment, kw, mailOk) ==
    LET obj == [appointment EXCEPT !.status = "cancelled",
                                   !.cancellation_reason = kw.reason]
        saved == SaveStore(store, obj)
    IN  IF kw.notify_client
        THEN LET m == send_mail("cancelled", OwnerEmail(obj.pet), mailOk)
             IN  Outcome(m.raised, obj, saved, m.mails)
        ELSE Outcome("none", obj, saved, <<>>)

\* mutant of NoShow_execute: the no-show remark is appended to the notes
NoShow_execute_appends(store, appointment, kw, mailOk) ==
    LET obj == [appointment EXCEPT !.status = "no_show",
                                   !.notes = appointment.notes \o "No-show: " \o kw.notes]
        saved == SaveStore(store, obj)
        m == send_mail("no_show", OwnerEmail(obj.pet), mailOk)
    IN  Outcome(m.raised, obj, saved, m.mails)
\* NoShowStrategy.execute
NoShow_execute(store, appointment, kw, mailOk) ==
    LET obj == [appointment EXCEPT !.status = "no_show",
                                   !.notes = "No-show: " \o kw.notes]
        saved == SaveStore(store, obj)
        m == send_mail("no_show", OwnerEmail(obj.pet), mailOk)
    IN  Outcome(m.raised, obj, saved, m.mails)

\* ReferralStrategy.execute.  _notify_referral reads new_vet.email, which a
\* user has and a Veterinarian profile (what refer_appointment passes) has
\* not: AttributeError, after the save.
Referral_execute(store, appointment, kw, mailOk) ==
    IF kw.new_vet = None
    THEN Outcome("ValueError", appointment, store, <<>>)
    ELSE LET old_vet == appointment.veterinarian
             obj == [appointment EXCEPT !.veterinarian = kw.new_vet,
                        !.notes = "Referred by Dr. " \o get_full_name(old_vet)
                                     \o ": " \o kw.notes]
             saved == SaveStore(store, obj)
         IN  IF IsVeterinarian(kw.new_vet)
             THEN Outcome("AttributeError", obj, saved, <<>>)
             ELSE LET m == send_mail("referral", VetEmail(kw.new_vet), mailOk)
                  IN  Outcome(m.raised, obj, saved, m.mails)

\* AppointmentComponentFactory._strategies
Strategies == {"complete", "reschedule", "cancel", "no_show", "refer"}

\* strategy.execute, dispatched on the class get_strategy returned
execute(action, store, appointment, kw, mailOk) ==
    CASE action = "complete" -> Complete_execute(store, appointment, kw, mailOk)
      [] action = "reschedule" -> Reschedule_execute(store, appointment, kw, mailOk)
      [] action = "cancel" -> Cancellation_execute(store, appointment, kw, mailOk)
      [] action = "no_show" -> NoShow_execute(store, appointment, kw, mailOk)
      [] action = "refer" -> Referral_execute(store, appointment, kw, mailOk)

\* ------------------------------------------------- the factory singleton
\* AppointmentComponentFactory._instance = None: nothing was constructed.
\* instance is the object _instance refers to (0 for None); builder,
\* director and repository are the objects its fields refer to, each named
\* by the number of the _initialize run that created it
NoInstance ==
    [instance |-> 0, initialized |-> 0, builder |-> 0, director |-> 0, repository |-> 0]

\* AppointmentComponentFactory._initialize: a new builder, director (with a
\* fresh builder of its own) and repository, and an empty observer list
AppointmentComponentFactory_initialize(f) ==
    LET k == f.initialized + 1
    IN  [factory |-> [f EXCEPT !.initialized = k, !.builder = k, !.director = k,
                               !.repository = k],
         observers |-> <<>>,
         director_builder |-> BuilderReset]

\* mutant of __new__: every construction runs _initialize on the instance
AppointmentComponentFactory_new_reinitializes(f, obs, db) ==
    LET i == AppointmentComponentFactory_initialize(
                 [f EXCEPT !.instance = IF f.instance = 0 THEN 1 ELSE f.instance])
    IN  [ret |-> i.factory.instance, factory |-> i.factory,
         observers |-> i.observers, director_builder |-> i.director_builder]

\* AppointmentComponentFactory.__new__
AppointmentComponentFactory_new(f, obs, db) ==
    IF f.instance = 0
    THEN LET i == AppointmentComponentFactory_initialize(
                      [f EXCEPT !.instance = f.initialized + 1])
         IN  [ret |-> i.factory.instance, factory |-> i.factory,
              observers |-> i.observers, director_builder |-> i.director_builder]
    ELSE [ret |-> f.instance, factory |-> f, observers |-> obs,
          director_builder |-> db]

\* AppointmentService.__init__: self.factory
AppointmentService_init(f, obs, db) == AppointmentComponentFactory_new(f, obs, db)

\* the factory after its first construction
Constructed == AppointmentComponentFactory_new(NoInstance, <<>>, BuilderReset).factory
\* ------------------------------------------------------------ the service
\* An environment fixes the sets the callers draw their arguments from.
\* the keyword arguments callers pass for each appointment type
CreateArgs(env, type, store) ==
    CASE type = "regular" ->
           [pet : env.pets, vet : env.vets, clinic_branch : env.branches,
            date_time : env.times]
      [] type = "emergency" ->
           [pet : env.pets, clinic_branch : env.branches, description : {"t"}]
      [] type = "follow_up" ->
           [original_appointment : {Load(store, i) : i \in 1..Len(store)},
            follow_up_date : env.times]
      [] type = "vaccination" ->
           [pet : env.pets, vet : env.vets, clinic_branch : env.branches,
            date_time : env.times, vaccine_type : {"rabies"}]
      [] type = "surgery" ->
           [pet : env.pets, vet : env.vets, clinic_branch : env.branches,
            date_time : env.times, surgery_type : {"spay"}, pre_op_notes : {""}]
      [] OTHER -> [pet : env.pets]

\* AppointmentService.create_appointment, up to the director's return
direct(b, appointment_type, kw) ==
    CASE appointment_type = "regular" ->
           create_regular_checkup(b, kw.pet, kw.vet, kw.clinic_branch, kw.date_time)
      [] appointment_type = "emergency" ->
           create_emergency_appointment(b, kw.pet, kw.clinic_branch, kw.description)
      [] appointment_type = "follow_up" ->
           create_follow_up(b, kw.original_appointment, kw.follow_up_date)
      [] appointment_type = "vaccination" ->
           create_vaccination(b, kw.pet, kw.vet, kw.clinic_branch, kw.vaccine_type,
                              kw.date_time)
      [] appointment_type = "surgery" ->
           create_surgery(b, kw.pet, kw.vet, kw.clinic_branch, kw.surgery_type,
                          kw.date_time, kw.pre_op_notes)
      [] OTHER -> [raised |-> "ValueError", obj |-> <<>>, builder |-> b]

\* the update calls of one notify_observers run, each with the table as it
\* stands while the observer runs
Received(calls, store) ==
    [i \in 1..Len(calls) |->
        [observer |-> calls[i].observer, appointment |-> calls[i].appointment,
         event |-> calls[i].event, store |-> store]]

\* what a service call leaves behind
Result(raised, ret, store, b, calls, mails) ==
    [raised |-> raised, ret |-> ret, store |-> store, builder |-> b,
     calls |-> calls, mails |-> mails]

\* mutant of create_appointment: the observers are notified of the built
\* appointment before it is saved
create_appointment_notify_first(store, obs, b, appointment_type, kw, mailOk) ==
    LET d == direct(b, appointment_type, kw)
    IN  IF d.raised # "none"
        THEN Result(d.raised, <<>>, store, d.builder, <<>>, <<>>)
        ELSE LET n == notify_observers(obs, d.obj[1], "created", mailOk)
             IN  IF n.raised # "none"
                 THEN Result(n.raised, <<>>, store, d.builder,
                             Received(n.calls, store), n.mails)
                 ELSE Result("none", <<SaveObject(store, d.obj[1])>>,
                             SaveStore(store, d.obj[1]), d.builder,
                             Received(n.calls, store), n.mails)

\* AppointmentService.create_appointment
create_appointment(store, obs, b, appointment_type, kw, mailOk) ==
    LET d == direct(b, appointment_type, kw)
    IN  IF d.raised # "none"
        THEN Result(d.raised, <<>>, store, d.builder, <<>>, <<>>)
        ELSE LET saved_store == SaveStore(store, d.obj[1])
                 saved_appointment == SaveObject(store, d.obj[1])
                 n == notify_observers(obs, saved_appointment, "created", mailOk)
             IN  Result(n.raised,
                        IF n.raised = "none" THEN <<saved_appointment>> ELSE <<>>,
                        saved_store, d.builder, Received(n.calls, saved_store),
                        n.mails)

\* the keyword arguments callers pass for each action
ProcessArgs(env, action) ==
    CASE action = "complete" ->
           [treatment_notes : env.texts, diagnosis : {"healthy"},
            follow_up_date : env.times \cup {NoDate}]
      [] action = "reschedule" ->
           [new_datetime : env.times \cup {NoDate}, reason : {"t"}]
      [] action = "cancel" -> [reason : env.texts, notify_client : BOOLEAN]
      [] action = "no_show" -> [notes : env.texts]
      [] action = "refer" ->
           [new_vet : env.new_vets \cup {None}, reason : {"t"}, notes : {"t"}]
      [] OTHER -> [reason : {"t"}]

\* mutant of process_appointment: observers receive the appointment as it
\* was loaded, not the one the strategy changed and the repository saved
process_appointment_stale_notify(store, obs, b, appointment_id, action, kw, mailOk) ==
    LET found == get_by_id(store, appointment_id)
    IN  IF found = <<>>
        THEN Result("ValueError", <<>>, store, b, <<>>, <<>>)
        ELSE IF action \notin Strategies
        THEN Result("ValueError", <<>>, store, b, <<>>, <<>>)
        ELSE LET e == execute(action, store, found[1], kw, mailOk)
             IN  IF e.raised # "none"
                 THEN Result(e.raised, <<>>, e.store, b, <<>>, e.mails)
                 ELSE LET saved_store == SaveStore(e.store, e.obj)
                          n == notify_observers(obs, found[1], action, mailOk)
                      IN  Result(n.raised,
                                 IF n.raised = "none" THEN <<e.obj>> ELSE <<>>,
                                 saved_store, b, Received(n.calls, saved_store),
                                 e.mails \o n.mails)

\* AppointmentService.process_appointment
process_appointment(store, obs, b, appointment_id, action, kw, mailOk) ==
    LET found == get_by_id(store, appointment_id)
    IN  IF found = <<>>
        THEN Result("ValueError", <<>>, store, b, <<>>, <<>>)
        ELSE IF action \notin Strategies
        THEN Result("ValueError", <<>>, store, b, <<>>, <<>>)
        ELSE LET e == execute(action, store, found[1], kw, mailOk)
             IN  IF e.raised # "none"
                 THEN Result(e.raised, <<>>, e.store, b, <<>>, e.mails)
                 ELSE LET saved_store == SaveStore(e.store, e.obj)
                          n == notify_observers(obs, e.obj, action, mailOk)
                      IN  Result(n.raised,
                                 IF n.raised = "none" THEN <<e.obj>> ELSE <<>>,
                                 saved_store, b, Received(n.calls, saved_store),
                                 e.mails \o n.mails)

\* -------------------------------------------------------- the client side
\* get_appointment_factory: the service type names that have a factory;
\* for any other name it returns None
FactoryNames == {"General Checkup", "Vaccination", "Surgery", "Grooming"}

\* appointment_views: the observers attached to AppointmentSubject when the
\* module is imported, in this order
appointment_subject == <<"email_notification", "reminder">>

\* AppointmentNotification.objects.create(..., is_sent=True)
Notification(appointment, notification_type) ==
    [appointment |-> appointment.id, notification_type |-> notification_type,
     is_sent |-> TRUE]

Observed(raised, table, mails) ==
    [raised |-> raised, notifications |-> table, mails |-> mails]

\* EmailNotificationObserver.update: mail the pet owner, then log it
EmailNotificationObserver_update(table, appointment, mailOk) ==
    LET m == send_mail("appointment_update", OwnerEmail(appointment.pet), mailOk)
    IN  IF m.raised # "none"
        THEN Observed(m.raised, table, <<>>)
        ELSE Observed("none",
                      Append(table, Notification(appointment,
                                 IF appointment.status = "confirmed"
                                 THEN "confirmation" ELSE "update")),
                      m.mails)

\* ReminderObserver.update: for a confirmed appointment, log the reminder,
\* then mail the pet owner
ReminderObserver_update(table, appointment, mailOk) ==
    IF appointment.status # "confirmed"
    THEN Observed("none", table, <<>>)
    ELSE LET m == send_mail("reminder", OwnerEmail(appointment.pet), mailOk)
         IN  Observed(m.raised, Append(table, Notification(appointment, "reminder")),
                      m.mails)

\* observer.update(appointment) of the client-side observers
client_update(observer, table, appointment, mailOk) ==
    IF observer = "email_notification"
    THEN EmailNotificationObserver_update(table, appointment, mailOk)
    ELSE ReminderObserver_update(table, appointment, mailOk)

Notified(raised, calls, table, mails) ==
    [raised |-> raised, calls |-> calls, notifications |-> table, mails |-> mails]

\* mutant of AppointmentSubject_notify: the notification is put aside for a
\* later run, the observers are not called
AppointmentSubject_notify_deferred(obs, table, appointment, mailOk) ==
    Notified("none", <<>>, table, <<>>)

\* AppointmentSubject.notify (patterns/observer.py): the observers in list
\* order, within the call; an observer that raises ends the loop
RECURSIVE AppointmentSubject_notify(_, _, _, _)
AppointmentSubject_notify(obs, table, appointment, mailOk) ==
    IF obs = <<>> THEN Notified("none", <<>>, table, <<>>)
    ELSE LET call == [observer |-> Head(obs), appointment |-> appointment,
                      event |-> None]
             r == client_update(Head(obs), table, appointment, mailOk)
         IN  IF r.raised # "none"
             THEN Notified(r.raised, <<call>>, r.notifications, r.mails)
             ELSE LET rest == AppointmentSubject_notify(Tail(obs), r.notifications,
                                                        appointment, mailOk)
                  IN  Notified(rest.raised, <<call>> \o rest.calls,
                               rest.notifications, r.mails \o rest.mails)

\* what a view leaves behind: the exception that ended it ("none" when it
\* reported success), the appointment it handled, the tables, the observer
\* calls and the mails
Handled(raised, ret, store, n) ==
    [raised |-> raised, ret |-> ret, store |-> store,
     notifications |-> n.notifications, calls |-> n.calls, mails |-> n.mails]

\* book_appointment up to the factory lookup: the appointment data, or the
\* exception (strptime on a malformed date_time; None.create_appointment
\* when the service type has no factory)
booking_data(post) ==
    IF post.date_time = NoDate
    THEN [raised |-> "ValueError", data |-> <<>>]
    ELSE LET appointment ==
                 build_object(set_notes(set_clinic_branch(set_datetime(
                     set_veterinarian(set_service(set_pet(BuilderReset, post.pet),
                         post.service_type), post.veterinarian), post.date_time),
                     post.clinic_branch), post.notes))
         IN  IF appointment.service_type \notin FactoryNames
             THEN [raised |-> "AttributeError", data |-> <<>>]
             ELSE [raised |-> "none",
                   data |-> <<[appointment EXCEPT !.status = "scheduled"]>>]

\* book_appointment (POST); every exception is caught and reported as an
\* error
book_appointment(store, table, post, mailOk) ==
    LET b == booking_data(post)
    IN  IF b.raised # "none"
        THEN Handled(b.raised, <<>>, store, Notified("none", <<>>, table, <<>>))
        ELSE LET appointment == SaveObject(store, b.data[1])
                 n == AppointmentSubject_notify(appointment_subject, table,
                                                appointment, mailOk)
             IN  Handled(n.raised, <<appointment>>, SaveStore(store, b.data[1]), n)

\* reschedule_appointment (POST); get_object_or_404 is outside the try
reschedule_appointment(store, table, appointment_id, date_time, mailOk) ==
    LET found == get_by_id(store, appointment_id)
    IN  IF found = <<>>
        THEN Handled("Http404", <<>>, store, Notified("none", <<>>, table, <<>>))
        ELSE IF date_time = NoDate
        THEN Handled("ValueError", <<>>, store, Notified("none", <<>>, table, <<>>))
        ELSE LET appointment == [found[1] EXCEPT !.date_time = date_time]
                 n == AppointmentSubject_notify(appointment_subject, table,
                                                appointment, mailOk)
             IN  Handled(n.raised, <<appointment>>, SaveStore(store, appointment), n)

\* cancel_appointment (POST)
cancel_appointment(store, table, appointment_id, mailOk) ==
    LET found == get_by_id(store, appointment_id)
    IN  IF found = <<>>
        THEN Handled("Http404", <<>>, store, Notified("none", <<>>, table, <<>>))
        ELSE LET appointment == [found[1] EXCEPT !.status = "cancelled"]
                 n == AppointmentSubject_notify(appointment_subject, table,
                                                appointment, mailOk)
             IN  Handled(n.raised, <<appointment>>, SaveStore(store, appointment), n)
\* ------------------------------------------------------------- behaviour
\* no setter called yet: each field holds <<>>, or <<v>> once v was passed
NotPassed ==
    [pet |-> <<>>, service_type |-> <<>>, veterinarian |-> <<>>,
     date_time |-> <<>>, clinic_branch |-> <<>>, notes |-> <<>>,
     status |-> <<>>]

Op(op, kind, id, args, raised, ret) ==
    [op |-> op, kind |-> kind, id |-> id, args |-> args, raised |-> raised, ret |-> ret]

\* two requests served at the same time by two threads of one process
Requests == {"r1", "r2"}

\* a thread that serves no request
Idle == [kind |-> "", pc |-> "idle", args |-> <<>>, obj |-> <<>>, raised |-> "none"]

Init ==
    /\ appointments = <<>>
    /\ observers = <<>>
    /\ director_builder = BuilderReset
    /\ builder = BuilderReset
    /\ passed = NotPassed
    /\ updates = <<>>
    /\ mail = <<>>
    /\ last = Op("init", "", 0, <<>>, "none", <<>>)
    /\ notifications = <<>>
    /\ requests = [r \in Requests |-> Idle]
    /\ factory = Constructed

RegisterObserver(env) ==
    \E o \in env.observers :
        /\ observers' = register_observer(observers, o)
        /\ updates' = <<>>
        /\ mail' = <<>>
        /\ last' = Op("register", o, 0, <<>>, "none", <<>>)
        /\ UNCHANGED <<appointments, director_builder, builder, passed, notifications, requests, factory>>

UnregisterObserver(env) ==
    \E o \in env.observers :
        /\ observers' = unregister_observer(observers, o)
        /\ updates' = <<>>
        /\ mail' = <<>>
        /\ last' = Op("unregister", o, 0, <<>>, "none", <<>>)
        /\ UNCHANGED <<appointments, director_builder, builder, passed, notifications, requests, factory>>

CreateAppointment(env) ==
    \E type \in env.types :
      \E kw \in CreateArgs(env, type, appointments) :
        /\ Len(appointments) < env.capacity
        /\ \E r \in {create_appointment(appointments, observers, director_builder,
                                         type, kw, mailOk) : mailOk \in BOOLEAN} :
               /\ appointments' = r.store
               /\ director_builder' = r.builder
               /\ updates' = r.calls
               /\ mail' = r.mails
               /\ last' = Op("create", type, Len(appointments) + 1, kw, r.raised, r.ret)
        /\ UNCHANGED <<observers, builder, passed, notifications, requests, factory>>

\* the ids callers pass: every stored one, and one that is not stored
ProcessAppointment(env) ==
    \E id \in 1..(Len(appointments) + 1), action \in env.actions :
      \E kw \in ProcessArgs(env, action) :
        /\ \E r \in {process_appointment(appointments, observers, director_builder,
                                          id, action, kw, mailOk) : mailOk \in BOOLEAN} :
               /\ appointments' = r.store
               /\ director_builder' = r.builder
               /\ updates' = r.calls
               /\ mail' = r.mails
               /\ last' = Op("process", action, id, kw, r.raised, r.ret)
        /\ UNCHANGED <<observers, builder, passed, notifications, requests, factory>>

ServiceNext(env) ==
    \/ RegisterObserver(env)
    \/ UnregisterObserver(env)
    \/ CreateAppointment(env)
    \/ ProcessAppointment(env)

\* the service with every observer class and every action, over one pet,
\* one veterinarian and one branch
EnvService ==
    [types |-> {"regular", "emergency"},
     pets |-> {"p1"}, vets |-> {"v1"}, branches |-> {"b1"}, times |-> {600},
     actions |-> Strategies \cup {"archive"}, texts |-> {"t"},
     new_vets |-> {"v1"}, observers |-> ObserverIds, capacity |-> MaxAppts]

Next == ServiceNext(EnvService)

Spec == Init /\ [][Next]_vars

LifecycleNext(env) ==
    \/ CreateAppointment(env)
    \/ ProcessAppointment(env)

\* every action with its argument variants, no observer registered
EnvLifecycle ==
    [types |-> {"regular"},
     pets |-> {"p1"}, vets |-> {"v1"}, branches |-> {"b1"}, times |-> {600, 615},
     actions |-> Strategies \cup {"archive"}, texts |-> {"", "t"},
     new_vets |-> {"v1"}, observers |-> {}, capacity |-> MaxAppts]

SpecLifecycle == Init /\ [][LifecycleNext(EnvLifecycle)]_vars

\* referrals: to another user, or (as refer_appointment does) to the
\* Veterinarian profile of another user; cancelling and rescheduling give
\* the referred appointment a status and a date_time of its own
EnvRefer ==
    [types |-> {"regular"},
     pets |-> {"p1"}, vets |-> {"v1"}, branches |-> {"b1"}, times |-> {600, 615},
     actions |-> {"refer", "cancel", "reschedule"}, texts |-> {"t"},
     new_vets |-> {"v2", Veterinarian("v2")},
     observers |-> {}, capacity |-> MaxAppts]

SpecRefer == Init /\ [][LifecycleNext(EnvRefer)]_vars

\* creation only: every appointment type over two pets, veterinarians,
\* branches and times, no observer registered; the store has room for one
\* appointment more, so that a follow-up of a stored appointment can be
\* created
EnvCreate ==
    [types |-> {"regular", "emergency", "follow_up", "vaccination", "surgery", "grooming"},
     pets |-> {"p1", "p2"}, vets |-> {"v1", "v2"}, branches |-> {"b1", "b2"},
     times |-> {600, 615}, actions |-> {}, texts |-> {"t"},
     observers |-> {}, capacity |-> MaxAppts + 1]

SpecCreate == Init /\ [][CreateAppointment(EnvCreate)]_vars

\* ------------------------------------------- constructing the singleton
\* the process before anything constructed the factory; observers and
\* director_builder are fields of the instance and are set by _initialize
InitFactory ==
    /\ appointments = <<>>
    /\ observers = <<>>
    /\ director_builder = BuilderReset
    /\ builder = BuilderReset
    /\ passed = NotPassed
    /\ updates = <<>>
    /\ mail = <<>>
    /\ last = Op("init", "", 0, <<>>, "none", <<>>)
    /\ notifications = <<>>
    /\ requests = [r \in Requests |-> Idle]
    /\ factory = NoInstance

\* a construction: what it returns is kept in last
Construct(class, r) ==
    /\ factory' = r.factory
    /\ observers' = r.observers
    /\ director_builder' = r.director_builder
    /\ updates' = <<>>
    /\ mail' = <<>>
    /\ last' = Op("construct", class, 0, <<>>, "none", <<r.ret>>)
    /\ UNCHANGED <<appointments, builder, passed, notifications, requests>>

\* AppointmentComponentFactory()
ConstructFactory ==
    Construct("AppointmentComponentFactory",
              AppointmentComponentFactory_new(factory, observers, director_builder))

\* AppointmentService()
ConstructService ==
    Construct("AppointmentService",
              AppointmentService_init(factory, observers, director_builder))

\* the service's and the factory's methods need an instance
FactoryNext(env) ==
    \/ ConstructFactory
    \/ ConstructService
    \/ (factory.instance # 0 /\ RegisterObserver(env))
    \/ (factory.instance # 0 /\ UnregisterObserver(env))
    \/ (factory.instance # 0 /\ CreateAppointment(env))
    \/ (factory.instance # 0 /\ ProcessAppointment(env))

EnvFactory ==
    [types |-> {"regular"},
     pets |-> {"p1"}, vets |-> {"v1"}, branches |-> {"b1"}, times |-> {600},
     actions |-> {"cancel", "reschedule"}, texts |-> {"t"},
     new_vets |-> {"v1"}, observers |-> ObserverIds, capacity |-> MaxAppts]

SpecFactory == InitFactory /\ [][FactoryNext(EnvFactory)]_vars
\* --------------------------------------------- the repository's queries
\* a query leaves the store alone; its result is kept in last
Query(op, kind, args, raised, ret) ==
    /\ last' = Op(op, kind, 0, args, raised, ret)
    /\ updates' = <<>>
    /\ mail' = <<>>
    /\ UNCHANGED <<appointments, observers, director_builder, builder, passed, notifications, requests, factory>>

\* the `date` arguments callers pass: datetimes, and dates
DateArgs(env) ==
    {DateTimeArg(t) : t \in env.times \cup {d * 24 * 60 : d \in env.days}}
        \cup {DateArg(d) : d \in env.days}

GetAvailableSlots(env) ==
    \E vet_id \in env.vets, date \in DateArgs(env) :
        LET r == get_available_slots(appointments, vet_id, date)
        IN  Query("get_available_slots", vet_id, [date |-> date], r.raised, r.ret)

CheckConflicts(env) ==
    \E vet_id \in env.vets, range \in env.ranges :
      \E r \in get_conflicts(appointments, vet_id, range[1], range[2]) :
        Query("check_conflicts", vet_id,
              [start_time |-> range[1], end_time |-> range[2]], "none", r)

GetAllByVet(env) ==
    \E vet_id \in env.vets, range \in env.ranges :
      \E r \in get_all_by_vet(appointments, vet_id, range[1], range[2]) :
        Query("get_all_by_vet", vet_id,
              [start_date |-> range[1], end_date |-> range[2]], "none", r)

GetAllByPet(env) ==
    \E pet_id \in env.pets :
      \E r \in get_all_by_pet(appointments, pet_id) :
        Query("get_all_by_pet", pet_id, <<>>, "none", r)

\* update_status returns False for an id that is not stored
UpdateStatus(env) ==
    \E appointment_id \in 1..(Len(appointments) + 1), new_status \in env.statuses :
        /\ appointments' = update_status(appointments, appointment_id, new_status)
        /\ updates' = <<>>
        /\ mail' = <<>>
        /\ last' = Op("update_status", new_status, appointment_id, <<>>, "none",
                      <<appointment_id \in 1..Len(appointments)>>)
        /\ UNCHANGED <<observers, director_builder, builder, passed, notifications, requests, factory>>

\* the client-side AJAX view get_available_slots, and callers that pass a
\* duration of their own
ClientGetAvailableSlots(env) ==
    \E vet \in env.vets, date \in env.days, duration \in env.durations :
        Query("client_get_available_slots", vet,
              [date |-> date, duration |-> duration], "none",
              AppointmentRepository_get_available_slots(appointments, vet, date, duration))
QueryNext(env) ==
    \/ CreateAppointment(env)
    \/ UpdateStatus(env)
    \/ GetAvailableSlots(env)
    \/ CheckConflicts(env)
    \/ GetAllByVet(env)
    \/ GetAllByPet(env)
    \/ ClientGetAvailableSlots(env)

\* regular appointments with two veterinarians, at 10:00 and 10:15 of day
\* 0, confirmed or not, and the queries over days 0 and 1
EnvQuery ==
    [types |-> {"regular"},
     pets |-> {"p1"}, vets |-> {"v1", "v2"}, branches |-> {"b1"},
     times |-> {600, 615}, days |-> {0, 1}, statuses |-> {"confirmed"},
     ranges |-> {<<600, 630>>, <<585, 615>>, <<615, 615>>, <<0, 1439>>},
     durations |-> {30, 45},
     actions |-> {}, texts |-> {"t"}, observers |-> {}, capacity |-> MaxAppts + 1]

SpecQuery == Init /\ [][QueryNext(EnvQuery)]_vars
\* ----------------------------------------------------- the client's views
\* bound on the rows of AppointmentNotification
MaxNotifications == 3

View(op, id, args, r) ==
    /\ appointments' = r.store
    /\ notifications' = r.notifications
    /\ updates' = r.calls
    /\ mail' = r.mails
    /\ last' = Op(op, "", id, args, r.raised, r.ret)
    /\ UNCHANGED <<observers, director_builder, builder, passed, requests, factory>>

\* the form fields of a booking
BookingPosts(env) ==
    [pet : env.pets, service_type : env.services, veterinarian : env.vets,
     date_time : env.times \cup {NoDate}, clinic_branch : env.branches,
     notes : env.texts]

BookAppointment(env) ==
    \E post \in BookingPosts(env) :
        /\ Len(appointments) < env.capacity
        /\ Len(notifications) < MaxNotifications
        /\ \E r \in {book_appointment(appointments, notifications, post, mailOk) :
                        mailOk \in BOOLEAN} :
               View("book", Len(appointments) + 1, post, r)

RescheduleAppointment(env) ==
    \E appointment_id \in 1..(Len(appointments) + 1),
       date_time \in env.times \cup {NoDate} :
        /\ Len(notifications) < MaxNotifications
        /\ \E r \in {reschedule_appointment(appointments, notifications,
                                            appointment_id, date_time, mailOk) :
                        mailOk \in BOOLEAN} :
               View("client_reschedule", appointment_id, [date_time |-> date_time], r)

CancelAppointment(env) ==
    \E appointment_id \in 1..(Len(appointments) + 1) :
        /\ Len(notifications) < MaxNotifications
        /\ \E r \in {cancel_appointment(appointments, notifications,
                                        appointment_id, mailOk) :
                        mailOk \in BOOLEAN} :
               View("client_cancel", appointment_id, <<>>, r)

ClientNext(env) ==
    \/ BookAppointment(env)
    \/ RescheduleAppointment(env)
    \/ CancelAppointment(env)
    \/ UpdateStatus(env)

\* bookings of a service with and without a factory; a booked appointment
\* may get confirmed
EnvClient ==
    [pets |-> {"p1"}, vets |-> {"v1"}, branches |-> {"b1"}, times |-> {600, 615},
     services |-> {"General Checkup", "Emergency"}, texts |-> {"t"},
     statuses |-> {"confirmed"}, capacity |-> MaxAppts]

SpecClient == Init /\ [][ClientNext(EnvClient)]_vars
\* ------------------------------------------- requests served concurrently
\* Each thread runs one request; a step is one call on shared state (the
\* singleton factory's director builder, the tables), so the steps of two
\* requests interleave in every order.
Thread(kind, pc, args, obj, raised) ==
    [kind |-> kind, pc |-> pc, args |-> args, obj |-> obj, raised |-> raised]

\* the setter calls of create_regular_checkup, in the order of the chain
SetterChain ==
    <<"set_pet", "set_service", "set_veterinarian", "set_datetime",
      "set_clinic_branch", "set_notes", "set_status">>

\* the step after the setter at position i of the chain
AfterSetter(i) == IF i < Len(SetterChain) THEN SetterChain[i + 1] ELSE "build"

\* one setter call of create_regular_checkup on the director's builder
ChainSetter(b, pc, args) ==
    CASE pc = "set_pet" -> set_pet(b, args.pet)
      [] pc = "set_service" -> set_service(b, "regular_checkup")
      [] pc = "set_veterinarian" -> set_veterinarian(b, args.vet)
      [] pc = "set_datetime" -> set_datetime(b, args.date_time)
      [] pc = "set_clinic_branch" -> set_clinic_branch(b, args.clinic_branch)
      [] pc = "set_notes" -> set_notes(b, "Regular health checkup")
      [] pc = "set_status" -> set_status(b, "pending")

\* the columns models.py declares without null=True: an INSERT with None in
\* one of them raises IntegrityError
NotNullViolated(obj) ==
    \/ obj.pet = None
    \/ obj.service_type = None
    \/ obj.veterinarian = None
    \/ obj.date_time = NoDate
    \/ obj.clinic_branch = None

Step(r, thread) ==
    /\ requests' = [requests EXCEPT ![r] = thread]
    /\ UNCHANGED <<observers, builder, passed, last, factory>>

\* a request arrives: a client's booking form, or a call of
\* AppointmentService.create_appointment('regular', ...)
StartRequest(env, r) ==
    /\ requests[r].pc = "idle"
    /\ \E kind \in env.kinds, pet \in env.pets :
          LET args == [pet |-> pet, vet |-> env.vet, date_time |-> env.date_time,
                       clinic_branch |-> env.clinic_branch]
          IN  Step(r, Thread(kind, IF kind = "book" THEN "booking_data" ELSE "set_pet",
                             args, <<>>, "none"))
    /\ UNCHANGED <<appointments, director_builder, notifications, updates, mail>>

\* create_regular_checkup: the next setter of the chain
ThreadSetter(r) ==
    \E i \in 1..Len(SetterChain) :
        /\ requests[r].pc = SetterChain[i]
        /\ director_builder' = ChainSetter(director_builder, SetterChain[i],
                                           requests[r].args)
        /\ Step(r, [requests[r] EXCEPT !.pc = AfterSetter(i)])
        /\ UNCHANGED <<appointments, notifications, updates, mail>>

\* create_regular_checkup: build() on the director's builder
ThreadBuild(r) ==
    /\ requests[r].pc = "build"
    /\ director_builder' = build_after(director_builder)
    /\ Step(r, [requests[r] EXCEPT !.pc = "save",
                                   !.obj = <<build_object(director_builder)>>])
    /\ UNCHANGED <<appointments, notifications, updates, mail>>

\* create_appointment: repository.save
ThreadSave(r) ==
    /\ requests[r].pc = "save"
    /\ IF NotNullViolated(requests[r].obj[1])
       THEN /\ Step(r, [requests[r] EXCEPT !.pc = "done", !.raised = "IntegrityError"])
            /\ UNCHANGED appointments
       ELSE /\ appointments' = SaveStore(appointments, requests[r].obj[1])
            /\ Step(r, [requests[r] EXCEPT !.pc = "notify",
                           !.obj = <<SaveObject(appointments, requests[r].obj[1])>>])
    /\ UNCHANGED <<director_builder, notifications, updates, mail>>

\* create_appointment: notify_observers, and the return
ThreadNotify(env, r) ==
    /\ requests[r].pc = "notify"
    /\ \E mailOk \in env.mail :
          LET n == notify_observers(observers, requests[r].obj[1], "created", mailOk)
          IN  /\ updates' = Received(n.calls, appointments)
              /\ mail' = n.mails
              /\ Step(r, [requests[r] EXCEPT !.pc = "done", !.raised = n.raised])
    /\ UNCHANGED <<appointments, director_builder, notifications>>

\* book_appointment: the request's own builder and the factory lookup
BookingData(r) ==
    /\ requests[r].pc = "booking_data"
    /\ LET post == [pet |-> requests[r].args.pet, service_type |-> "General Checkup",
                    veterinarian |-> requests[r].args.vet,
                    date_time |-> requests[r].args.date_time,
                    clinic_branch |-> requests[r].args.clinic_branch, notes |-> ""]
           b == booking_data(post)
       IN  Step(r, [requests[r] EXCEPT !.pc = "create", !.obj = b.data])
    /\ UNCHANGED <<appointments, director_builder, notifications, updates, mail>>

\* book_appointment: factory.create_appointment, an INSERT
BookingCreate(r) ==
    /\ requests[r].pc = "create"
    /\ appointments' = SaveStore(appointments, requests[r].obj[1])
    /\ Step(r, [requests[r] EXCEPT !.pc = "notify_subject",
                   !.obj = <<SaveObject(appointments, requests[r].obj[1])>>])
    /\ UNCHANGED <<director_builder, notifications, updates, mail>>

\* book_appointment: appointment_subject.notify, and the response
BookingNotify(env, r) ==
    /\ requests[r].pc = "notify_subject"
    /\ \E mailOk \in env.mail :
          LET n == AppointmentSubject_notify(appointment_subject, notifications,
                                             requests[r].obj[1], mailOk)
          IN  /\ notifications' = n.notifications
              /\ updates' = n.calls
              /\ mail' = n.mails
              /\ Step(r, [requests[r] EXCEPT !.pc = "done", !.raised = n.raised])
    /\ UNCHANGED <<appointments, director_builder>>

BookingNext(env) ==
    \E r \in Requests :
        \/ StartRequest(env, r)
        \/ ThreadSetter(r)
        \/ ThreadBuild(r)
        \/ ThreadSave(r)
        \/ ThreadNotify(env, r)
        \/ BookingData(r)
        \/ BookingCreate(r)
        \/ BookingNotify(env, r)

\* two requests for the same veterinarian, branch and date_time, for either
\* pet, while the mail backend delivers
EnvBooking ==
    [kinds |-> {"book", "create"}, pets |-> {"p1", "p2"}, vet |-> "v1",
     date_time |-> 600, clinic_branch |-> "b1", mail |-> {TRUE}]

SpecBooking == Init /\ [][BookingNext(EnvBooking)]_vars
\* ------------------------------------- a caller-owned AppointmentBuilder
BuilderStep(op, b, p) ==
    /\ builder' = b
    /\ passed' = p
    /\ last' = Op(op, "", 0, <<>>, "none", <<>>)
    /\ UNCHANGED <<appointments, observers, director_builder, updates, mail, notifications, requests, factory>>

SetPet == \E v \in {"p1", "p2"} :
    BuilderStep("set_pet", set_pet(builder, v), [passed EXCEPT !.pet = <<v>>])
SetService == \E v \in {"checkup", "surgery"} :
    BuilderStep("set_service", set_service(builder, v), [passed EXCEPT !.service_type = <<v>>])
SetVeterinarian == \E v \in {"v1", "v2"} :
    BuilderStep("set_veterinarian", set_veterinarian(builder, v),
                [passed EXCEPT !.veterinarian = <<v>>])
SetDatetime == \E v \in {600, 615} :
    BuilderStep("set_datetime", set_datetime(builder, v), [passed EXCEPT !.date_time = <<v>>])
SetClinicBranch == \E v \in {"b1", "b2"} :
    BuilderStep("set_clinic_branch", set_clinic_branch(builder, v),
                [passed EXCEPT !.clinic_branch = <<v>>])
SetNotes == \E v \in {"", "Test appointment"} :
    BuilderStep("set_notes", set_notes(builder, v), [passed EXCEPT !.notes = <<v>>])
SetStatus == \E v \in {"pending", "urgent"} :
    BuilderStep("set_status", set_status(builder, v), [passed EXCEPT !.status = <<v>>])

Build ==
    /\ builder' = build_after(builder)
    /\ passed' = NotPassed
    /\ last' = Op("build", "", 0, <<>>, "none", <<build_object(builder)>>)
    /\ UNCHANGED <<appointments, observers, director_builder, updates, mail, notifications, requests, factory>>

BuilderNext ==
    \/ SetPet
    \/ SetService
    \/ SetVeterinarian
    \/ SetDatetime
    \/ SetClinicBranch
    \/ SetNotes
    \/ SetStatus
    \/ Build

SpecBuilder == Init /\ [][BuilderNext]_vars
\* ================================================================ claims
Range(seq) == {seq[i] : i \in 1..Len(seq)}
CallsTo(o) == {i \in 1..Len(updates) : updates[i].observer = o}
Returned(op, kind) == last.op = op /\ last.kind = kind /\ last.raised = "none"

\* every registered observer was called exactly once, each call carrying the
\* returned appointment, as it stands in the store, and the given event
NotifiedOnce(event) ==
    /\ \A o \in Range(observers) : Cardinality(CallsTo(o)) = 1
    /\ \A i \in 1..Len(updates) :
          /\ updates[i].observer \in Range(observers)
          /\ updates[i].appointment = last.ret[1]
          /\ updates[i].appointment.id \in 1..Len(appointments)
          /\ Row(updates[i].appointment) = appointments[updates[i].appointment.id]
          /\ updates[i].event = event

\* C1: when create_appointment returns, every observer registered with the
\* factory has had update called exactly once for that creation, with the
\* saved appointment and the event 'created'.
C1_CreateNotifiesEachObserverOnce ==
    (last.op = "create" /\ last.raised = "none") => NotifiedOnce("created")

C1_Witness ==
    /\ last.op = "create" /\ last.raised = "none"
    /\ Len(observers) = 2
    /\ Len(updates) = 2

\* C2: when process_appointment returns, for any of the actions reschedule,
\* complete, cancel, no_show and refer, every registered observer has been
\* notified exactly once with the saved appointment and the action name.
C2_ProcessNotifiesEachObserverOnce ==
    (last.op = "process" /\ last.raised = "none") =>
        /\ last.kind \in {"reschedule", "complete", "cancel", "no_show", "refer"}
        /\ NotifiedOnce(last.kind)

C2_Witness ==
    /\ Returned("process", "reschedule")
    /\ Len(observers) = 2
    /\ Len(updates) = 2
    /\ updates[2].appointment.date_time = last.args.new_datetime

C4_EmergencyStoredUrgent ==
    (last.op = "create" /\ last.kind = "emergency") =>
        /\ last.id = Len(appointments)
        /\ appointments[last.id].status = "urgent"
        /\ appointments[last.id].service_type = "emergency"
        /\ appointments[last.id].veterinarian # None

\* C5: after process_appointment(id, 'complete', treatment_notes, diagnosis)
\* returns, the appointment read back with repository.get_by_id(id) has
\* status 'completed' and carries the given treatment notes and diagnosis.
C5_CompletedReadBack ==
    Returned("process", "complete") =>
        LET read == get_by_id(appointments, last.id)
        IN  /\ read # <<>>
            /\ read[1].status = "completed"
            /\ read[1].treatment_notes = last.args.treatment_notes
            /\ read[1].diagnosis = last.args.diagnosis

\* C6: 'complete' with a follow_up_date completes the original appointment
\* and stores one new appointment for the same pet, with service type
\* 'follow_up', status 'pending' and the follow_up_date as date; without a
\* follow_up_date it stores no new appointment.
C6_FollowUpStored ==
    [][(last'.op = "process" /\ last'.kind = "complete"
            /\ last'.id \in 1..Len(appointments)) =>
         IF last'.args.follow_up_date # NoDate
         THEN /\ last'.raised = "none"
              /\ Len(appointments') = Len(appointments) + 1
              /\ appointments'[last'.id].status = "completed"
              /\ appointments'[Len(appointments')].pet = appointments[last'.id].pet
              /\ appointments'[Len(appointments')].service_type = "follow_up"
              /\ appointments'[Len(appointments')].status = "pending"
              /\ appointments'[Len(appointments')].date_time = last'.args.follow_up_date
         ELSE Len(appointments') = Len(appointments)]_vars

\* C7: a 'reschedule' that returns has set the appointment's date_time to
\* new_datetime and left its status, pet, veterinarian, clinic branch and
\* notes (and every other appointment) as they were, on the returned object
\* and in the store.
C7_RescheduleFrame ==
    [][(last'.op = "process" /\ last'.kind = "reschedule" /\ last'.raised = "none") =>
         /\ last'.id \in 1..Len(appointments)
         /\ appointments' =
               [appointments EXCEPT ![last'.id].date_time = last'.args.new_datetime]
         /\ last'.ret[1].id = last'.id
         /\ Row(last'.ret[1]) = appointments'[last'.id]]_vars

C7_Witness ==
    /\ Returned("process", "reschedule")
    /\ appointments[last.id].date_time = 615
    /\ appointments[last.id].status = "no_show"
    /\ appointments[last.id].notes = "No-show: t"

\* C8: 'cancel' stores status 'cancelled' and sets the given reason as the
\* appointment's cancellation_reason whatever notify_client is; the
\* cancellation email goes to the pet owner exactly when notify_client is
\* true.
C8_CancelRecordsReason ==
    (last.op = "process" /\ last.kind = "cancel" /\ last.id \in 1..Len(appointments)) =>
        /\ appointments[last.id].status = "cancelled"
        /\ ~last.args.notify_client => mail = <<>>
        /\ last.raised = "none" =>
              /\ last.ret[1].status = "cancelled"
              /\ last.ret[1].cancellation_reason = last.args.reason
              /\ last.args.notify_client =>
                    mail = <<[kind |-> "cancelled",
                              to |-> OwnerEmail(appointments[last.id].pet)]>>

C8_Witness ==
    /\ Returned("process", "cancel")
    /\ ~last.args.notify_client
    /\ last.args.reason = "t"
    /\ last.ret[1].cancellation_reason = "t"
    /\ mail = <<>>

\* C9: the lifecycle actions are unguarded: on any stored appointment,
\* whatever its status, 'complete', 'cancel' and 'no_show' leave the status
\* completed, cancelled and no_show, and 'reschedule' with a new_datetime
\* leaves that date_time; so a completed appointment can be rescheduled, and
\* a cancel after that leaves it cancelled.
C9_UnguardedTransitions ==
    (last.op = "process" /\ last.id \in 1..Len(appointments)) =>
        /\ last.kind = "complete" => appointments[last.id].status = "completed"
        /\ last.kind = "cancel" => appointments[last.id].status = "cancelled"
        /\ last.kind = "no_show" => appointments[last.id].status = "no_show"
        /\ (last.kind = "reschedule" /\ last.args.new_datetime # NoDate) =>
              appointments[last.id].date_time = last.args.new_datetime

C9_Witness ==
    /\ Returned("process", "reschedule")
    /\ appointments[last.id].status = "completed"
    /\ appointments[last.id].date_time = 615

Overlaps(s1, e1, s2, e2) == s1 < e2 /\ s2 < e1

\* C11: for every appointment stored for veterinarian v on date d, no slot
\* returned by get_available_slots(v, d) overlaps the appointment's interval
\* [date_time, date_time + 30 minutes); in particular the appointment's own
\* start time is not among the returned slots.
C11_NoSlotOverlapsStored ==
    (last.op = "get_available_slots" /\ last.raised = "none") =>
        \A i \in 1..Len(appointments) :
            (/\ appointments[i].veterinarian = last.kind
             /\ DateOf(appointments[i].date_time) = DateOf(last.args.date.value)) =>
                \A k \in 1..Len(last.ret) :
                    /\ ~Overlaps(last.ret[k], last.ret[k] + 30,
                                 appointments[i].date_time, appointments[i].date_time + 30)
                    /\ last.ret[k] # appointments[i].date_time

\* C12: the client-side get_available_slots(vet, date, duration) returns, in
\* ascending order, exactly the slots s = 09:00 + k*duration with
\* s + duration <= 17:00 that no confirmed appointment a of that veterinarian
\* on that date overlaps (s < a + duration and s + duration > a);
\* appointments of any other status remove no slot.
C12_ClientSlotsExact ==
    last.op = "client_get_available_slots" =>
        LET duration == last.args.duration
            open == last.args.date * 24 * 60 + 9 * 60
            close == last.args.date * 24 * 60 + 17 * 60
            confirmed == {appointments[i].date_time : i \in
                            {j \in 1..Len(appointments) :
                                /\ appointments[j].veterinarian = last.kind
                                /\ DateOf(appointments[j].date_time) = last.args.date
                                /\ appointments[j].status = "confirmed"}}
            expected == {s \in open..close :
                            /\ (s - open) % duration = 0
                            /\ s + duration <= close
                            /\ \A a \in confirmed :
                                  ~(s < a + duration /\ s + duration > a)}
        IN  /\ Range(last.ret) = expected
            /\ \A i, j \in 1..Len(last.ret) : i < j => last.ret[i] < last.ret[j]

C12_Witness ==
    /\ last.op = "client_get_available_slots"
    /\ last.args.duration = 30
    /\ \E i, j \in 1..Len(appointments) :
          /\ appointments[i].veterinarian = last.kind
          /\ appointments[i].date_time = 600
          /\ appointments[i].status = "confirmed"
          /\ appointments[j].veterinarian = last.kind
          /\ appointments[j].date_time = 615
          /\ appointments[j].status = "pending"
    /\ 600 \notin Range(last.ret)
    /\ 630 \in Range(last.ret)
    /\ Len(last.ret) = 15

\* C13: check_conflicts(vet, start, end) returns exactly the stored
\* appointments of that veterinarian whose date_time lies in [start, end],
\* both bounds included, whatever their status, in ascending date_time
\* order; so once an appointment is created for the veterinarian at time t,
\* check_conflicts(vet, t, t + 30 minutes) is not empty.
C13_ConflictsExact ==
    /\ last.op = "check_conflicts" =>
          LET inRange == {i \in 1..Len(appointments) :
                             /\ appointments[i].veterinarian = last.kind
                             /\ last.args.start_time <= appointments[i].date_time
                             /\ appointments[i].date_time <= last.args.end_time}
          IN  /\ {last.ret[k].id : k \in 1..Len(last.ret)} = inRange
              /\ Len(last.ret) = Cardinality(inRange)
              /\ \A k \in 1..Len(last.ret) :
                    Row(last.ret[k]) = appointments[last.ret[k].id]
              /\ \A j, k \in 1..Len(last.ret) :
                    j < k => last.ret[j].date_time <= last.ret[k].date_time
    /\ (last.op = "create" /\ last.raised = "none") =>
          \A r \in get_conflicts(appointments, last.ret[1].veterinarian,
                                 last.ret[1].date_time, last.ret[1].date_time + 30) :
              \E k \in 1..Len(r) : r[k].id = last.ret[1].id

C13_Witness ==
    /\ last.op = "check_conflicts"
    /\ last.args.start_time = 585
    /\ last.args.end_time = 615
    /\ Len(last.ret) = 2
    /\ last.ret[1].date_time = 600
    /\ last.ret[1].status = "confirmed"
    /\ last.ret[2].date_time = 615
    /\ last.ret[2].status = "pending"

\* C14: every create_appointment that returns has added exactly one
\* appointment to the store and changed no other: get_by_id of the returned
\* id yields the returned appointment, get_all_by_pet of its pet and
\* get_all_by_vet of its veterinarian (over a range containing its
\* date_time) are one longer than before, and those of the other pets and
\* veterinarians are as long as before; so n creations for one pet and one
\* veterinarian make both lists n long.
C14_CreateAddsOne ==
    [][(last'.op = "create" /\ last'.raised = "none") =>
         LET a == last'.ret[1]
         IN  /\ Len(appointments') = Len(appointments) + 1
             /\ SubSeq(appointments', 1, Len(appointments)) = appointments
             /\ get_by_id(appointments', a.id) = <<a>>
             /\ \A p \in EnvCreate.pets :
                   \A before \in get_all_by_pet(appointments, p),
                      after \in get_all_by_pet(appointments', p) :
                       Len(after) = Len(before) + (IF p = a.pet THEN 1 ELSE 0)
             /\ \A v \in EnvCreate.vets :
                   \A before \in get_all_by_vet(appointments, v, 0, 24 * 60 - 1),
                      after \in get_all_by_vet(appointments', v, 0, 24 * 60 - 1) :
                       Len(after) = Len(before) + (IF v = a.veterinarian THEN 1 ELSE 0)]_vars

C14_Witness ==
    /\ last.op = "create" /\ last.raised = "none"
    /\ Len(appointments) = 2
    /\ last.ret[1].id = 2
    /\ \E r \in get_all_by_pet(appointments, "p2") : Len(r) = 2
    /\ \E r \in get_all_by_vet(appointments, "v1", 0, 24 * 60 - 1) : Len(r) = 2

\* C17: process_appointment with an id that matches no stored appointment,
\* or with an action that is not one of complete, reschedule, cancel,
\* no_show, refer, raises ValueError; no appointment is changed or created
\* and no observer is notified.
C17_UnknownIdOrActionRaises ==
    [][(last'.op = "process"
            /\ (last'.id \notin 1..Len(appointments)
                   \/ last'.kind \notin {"complete", "reschedule", "cancel",
                                         "no_show", "refer"})) =>
         /\ last'.raised = "ValueError"
         /\ last'.ret = <<>>
         /\ appointments' = appointments
         /\ updates' = <<>>
         /\ mail' = <<>>]_vars

C17_Witness ==
    /\ last.op = "process"
    /\ last.kind = "archive"
    /\ last.id = 1
    /\ Len(appointments) = 1
    /\ Len(observers) = 2
    /\ last.raised = "ValueError"

\* C18: 'reschedule' without a new_datetime raises ValueError and has no
\* effect: the appointment's date_time is unchanged in the store, no
\* reschedule email is sent and no observer is notified.
C18_RescheduleNeedsDatetime ==
    [][(last'.op = "process" /\ last'.kind = "reschedule"
            /\ last'.args.new_datetime = NoDate) =>
         /\ last'.raised = "ValueError"
         /\ appointments' = appointments
         /\ mail' = <<>>
         /\ updates' = <<>>]_vars

C18_Witness ==
    /\ last.op = "process" /\ last.kind = "reschedule"
    /\ last.args.new_datetime = NoDate
    /\ last.id = 1
    /\ Len(appointments) = 1
    /\ appointments[1].date_time = 600
    /\ Len(observers) = 2
    /\ last.raised = "ValueError"

\* C19: 'refer' replaces the appointment's veterinarian with new_vet, leaves
\* its status and date_time unchanged and sends the referral email to the
\* new veterinarian only (nothing but the mail backend makes it fail);
\* without a new_vet it raises ValueError and changes nothing.
C19_ReferFrame ==
    [][(last'.op = "process" /\ last'.kind = "refer"
            /\ last'.id \in 1..Len(appointments)) =>
         IF last'.args.new_vet = None
         THEN /\ last'.raised = "ValueError"
              /\ appointments' = appointments
              /\ mail' = <<>>
         ELSE /\ Len(appointments') = Len(appointments)
              /\ appointments'[last'.id].veterinarian = last'.args.new_vet
              /\ appointments'[last'.id].status = appointments[last'.id].status
              /\ appointments'[last'.id].date_time = appointments[last'.id].date_time
              /\ last'.raised \in {"none", "SMTPException"}
              /\ last'.raised = "none" =>
                    mail' = <<[kind |-> "referral",
                               to |-> VetEmail(last'.args.new_vet)]>>]_vars

\* C20: 'no_show' sets the status to 'no_show', replaces the notes with
\* 'No-show: ' followed by the given notes, leaves date_time and
\* veterinarian unchanged and always sends the missed-appointment notice to
\* the pet owner (nothing but the mail backend makes it fail).
C20_NoShowFrame ==
    [][(last'.op = "process" /\ last'.kind = "no_show"
            /\ last'.id \in 1..Len(appointments)) =>
         /\ appointments' =
               [appointments EXCEPT ![last'.id].status = "no_show",
                                    ![last'.id].notes = "No-show: " \o last'.args.notes]
         /\ last'.raised \in {"none", "SMTPException"}
         /\ last'.raised = "none" =>
               /\ mail' = <<[kind |-> "no_show",
                             to |-> OwnerEmail(appointments[last'.id].pet)]>>
               /\ Row(last'.ret[1]) = appointments'[last'.id]]_vars

C20_Witness ==
    /\ Returned("process", "no_show")
    /\ last.args.notes = ""
    /\ appointments[last.id].notes = "No-show: "
    /\ appointments[last.id].status = "no_show"
    /\ appointments[last.id].veterinarian = "v1"
    /\ appointments[last.id].date_time = 615
    /\ mail = <<[kind |-> "no_show", to |-> OwnerEmail("p1")]>>


\* the appointment request r asked for is stored, as asked
StoredAsRequested(r) ==
    /\ requests[r].raised = "none"
    /\ requests[r].obj # <<>>
    /\ requests[r].obj[1].id \in 1..Len(appointments)
    /\ appointments[requests[r].obj[1].id].pet = requests[r].args.pet
    /\ appointments[requests[r].obj[1].id].veterinarian = requests[r].args.vet
    /\ appointments[requests[r].obj[1].id].date_time = requests[r].args.date_time
    /\ appointments[requests[r].obj[1].id].clinic_branch = requests[r].args.clinic_branch

\* C15: booking has no concurrency control: neither book_appointment nor
\* create_appointment checks or locks the requested slot, so two requests
\* for the same veterinarian and the same date_time, in any interleaving,
\* both succeed and both appointments are stored.
C15_BothBookingsStored ==
    (\A r \in Requests : requests[r].pc = "done") =>
        /\ \A r \in Requests : StoredAsRequested(r)
        /\ \A r1, r2 \in Requests :
              r1 # r2 => requests[r1].obj[1].id # requests[r2].obj[1].id
\* C16: notification is synchronous: when the client-side book, reschedule
\* or cancel operation reports success, every observer attached to
\* AppointmentSubject has been run for that appointment, in attachment
\* order, within the operation: the email to the pet owner has been sent and
\* an AppointmentNotification for the appointment has been recorded.
C16_NotifiedBeforeSuccess ==
    [][(last'.op \in {"book", "client_reschedule", "client_cancel"}
            /\ last'.raised = "none") =>
         LET a == last'.ret[1]
         IN  /\ a.id \in 1..Len(appointments')
             /\ Row(a) = appointments'[a.id]
             /\ Len(updates') = Len(appointment_subject)
             /\ \A i \in 1..Len(updates') :
                   /\ updates'[i].observer = appointment_subject[i]
                   /\ updates'[i].appointment = a
             /\ mail' # <<>>
             /\ \A i \in 1..Len(mail') : mail'[i].to = OwnerEmail(a.pet)
             /\ Len(notifications') > Len(notifications)
             /\ SubSeq(notifications', 1, Len(notifications)) = notifications
             /\ \A i \in (Len(notifications) + 1)..Len(notifications') :
                   /\ notifications'[i].appointment = a.id
                   /\ notifications'[i].is_sent]_vars

C16_Witness ==
    /\ last.op = "client_reschedule" /\ last.raised = "none"
    /\ last.ret[1].status = "confirmed"
    /\ last.ret[1].date_time = 615
    /\ Len(updates) = 2
    /\ Len(mail) = 2
    /\ Len(notifications) = 3
    /\ notifications[1].notification_type = "update"
    /\ notifications[2].notification_type = "confirmation"
    /\ notifications[3].notification_type = "reminder"

\* C21: create_appointment('emergency', ...) either stores an appointment
\* whose veterinarian was found for the requested branch, or, when no
\* veterinarian is available, raises ValidationError, stores nothing and
\* notifies no observer.
C21_EmergencyAssignsOrValidationError ==
    (last.op = "create" /\ last.kind = "emergency") =>
        \/ /\ Len(appointments) = last.id
           /\ appointments[last.id].clinic_branch = last.args.clinic_branch
           /\ appointments[last.id].veterinarian # None
        \/ /\ last.raised = "ValidationError"
           /\ Len(appointments) = last.id - 1
           /\ updates = <<>>

\* C22: with a VetScheduleObserver registered, every process_appointment
\* that returns from a reschedule, complete, cancel or no_show has sent a
\* notification mail to the appointment's veterinarian.
C22_VetMailedOnChange ==
    (/\ last.op = "process" /\ last.raised = "none"
     /\ last.kind \in {"reschedule", "complete", "cancel", "no_show"}
     /\ "vet_schedule" \in Range(observers)) =>
        \E i \in 1..Len(mail) :
            /\ mail[i].kind = "vet_update"
            /\ mail[i].to = VetEmail(last.ret[1].veterinarian)

\* C23: every stored appointment has one of the five declared statuses.
C23_StatusDeclared ==
    \A i \in 1..Len(appointments) : appointments[i].status \in STATUS_CHOICES

\* C24: the factory is a singleton initialised exactly once: every
\* construction (of the factory, or of a service) returns the one instance,
\* and a construction after the first leaves the registered observers, the
\* builder, the director and the repository as they were.
C24_SingletonInitialisedOnce ==
    [][last'.op = "construct" =>
          /\ last'.ret = <<1>>
          /\ factory'.instance = 1
          /\ factory'.initialized = 1
          /\ factory.instance # 0 =>
                /\ factory' = factory
                /\ observers' = observers
                /\ director_builder' = director_builder
                /\ appointments' = appointments]_vars

C24_Witness ==
    /\ last.op = "construct" /\ last.kind = "AppointmentService"
    /\ Len(observers) = 2
    /\ Len(appointments) = 1

\* the call reached notify_observers: it returned, or an observer raised
Emitted == last.op \in {"create", "process"} /\ (last.raised = "none" \/ updates # <<>>)

\* C25: registering twice is registering once and unregistering an
\* observer that is not registered changes nothing; each observer is in the
\* list at most once, it is in the list exactly when its last call was a
\* register, and it is notified for an event exactly when it is in the list.
C25_NotifiedIffRegistered ==
    [][/\ \A o \in ObserverIds :
              Cardinality({i \in 1..Len(observers') : observers'[i] = o}) <= 1
       /\ last'.op = "register" =>
              /\ last'.kind \in Range(observers')
              /\ last'.kind \in Range(observers) => observers' = observers
              /\ \A o \in ObserverIds \ {last'.kind} :
                     (o \in Range(observers')) = (o \in Range(observers))
       /\ last'.op = "unregister" =>
              /\ last'.kind \notin Range(observers')
              /\ last'.kind \notin Range(observers) => observers' = observers
              /\ \A o \in ObserverIds \ {last'.kind} :
                     (o \in Range(observers')) = (o \in Range(observers))
       /\ last'.op \notin {"register", "unregister"} => observers' = observers
       /\ Emitted' =>
              \A o \in ObserverIds :
                  (\E i \in 1..Len(updates') : updates'[i].observer = o)
                      = (o \in Range(observers'))]_vars

C27_RaiseLeavesStoreUnchanged ==
    [][(last'.op = "process" /\ last'.raised # "none") =>
            appointments' = appointments]_vars
====
